---- MODULE Spec2Model ----
\* A model of priv_tauri_updater (src/src/lib.rs): a local reverse proxy that
\* mirrors the assets of the latest release of a private GitHub repository.
\*
\* Strings are sequences of Unicode code points, byte strings are sequences
\* of integers 0..255.  Asset names and fetch URLs are only ever compared for
\* equality, so they are kept as TLA+ strings.
EXTENDS Integers, Sequences, FiniteSets, TLC

\* ------------------------------------------------------------------ bounds

\* Longest upstream body the proxy is handed.
MaxBodyLen == 2
\* Largest number of candidate addresses in a row the environment keeps busy.
MaxUnavailable == 12
\* PrivUpdater::new calls per process.
MaxUpdaters == 2
\* Requests the listener tasks handle at the same time.
MaxRequests == 2
\* Calls of PrivUpdater::shutdown per instance.
MaxShutdownCalls == 2

\* ------------------------------------------------------- program constants

\* `COUNTER.load(Ordering::Acquire) > 10`
RetryCeiling == 10
\* `(self.server_addr.port() + 1) % 1000`
PortModulus == 1000
\* `SocketAddr::new(IpAddr::V4(Ipv4Addr::new(127, 0, 0, 1)), 7748)`
DefaultPort == 7748
\* u16: the width of SocketAddr's port.
PortWidth == 65536
\* AtomicU8: the width of COUNTER.
CounterWidth == 256

\* ------------------------------------------------------------------ strings

Slash == 47
ReplacementChar == 65533

\* "http://"
HttpScheme == <<104, 116, 116, 112, 58, 47, 47>>
\* "127.0.0.1" (Ipv4Addr's Display)
LoopbackText == <<49, 50, 55, 46, 48, 46, 48, 46, 49>>
\* "latest.json"
ManifestName == "latest.json"

RECURSIVE ToDecimal(_)
\* u16's Display: the decimal digits of n, most significant first.
ToDecimal(n) ==
    IF n < 10 THEN <<48 + n>>
    ELSE ToDecimal(n \div 10) \o <<48 + (n % 10)>>

\* SocketAddr::to_string for a V4 loopback address: "127.0.0.1:<port>".
SocketAddrToString(port) == LoopbackText \o <<58>> \o ToDecimal(port)

\* Response::text(): the body decoded as UTF-8, every byte that cannot be
\* part of a UTF-8 sequence replaced by U+FFFD.  Defined for ASCII bytes and
\* for the bytes 0xF8..0xFF, which no UTF-8 sequence contains.
Utf8DecodeLossy(bytes) ==
    [i \in 1..Len(bytes) |-> IF bytes[i] < 128 THEN bytes[i] ELSE ReplacementChar]

\* The UTF-8 encoding of one code point below 0x10000.
Utf8EncodeChar(cp) ==
    IF cp < 128 THEN <<cp>>
    ELSE IF cp < 2048 THEN <<192 + (cp \div 64), 128 + (cp % 64)>>
    ELSE <<224 + (cp \div 4096), 128 + ((cp \div 64) % 64), 128 + (cp % 64)>>

RECURSIVE IntoBytes(_)
\* String::into_bytes: the UTF-8 bytes of the string.
IntoBytes(text) ==
    IF text = <<>> THEN <<>>
    ELSE Utf8EncodeChar(Head(text)) \o IntoBytes(Tail(text))

\* pat occurs in text at position i (1-based).
MatchesAt(text, pat, i) ==
    /\ i >= 1
    /\ i + Len(pat) - 1 <= Len(text)
    /\ SubSeq(text, i, i + Len(pat) - 1) = pat

RECURSIVE ReplaceFrom(_, _, _, _)
\* str::replace scanning from position i: matches are taken left to right
\* and do not overlap; the empty pattern matches before every character and
\* at the end.
ReplaceFrom(text, from, to, i) ==
    IF from = <<>>
    THEN IF i > Len(text) THEN to
         ELSE to \o <<text[i]>> \o ReplaceFrom(text, from, to, i + 1)
    ELSE IF i > Len(text) THEN <<>>
    ELSE IF MatchesAt(text, from, i)
         THEN to \o ReplaceFrom(text, from, to, i + Len(from))
         ELSE <<text[i]>> \o ReplaceFrom(text, from, to, i + 1)

\* str::replacen(from, to, 1) in place of replace: the first match only.
ReplaceFirst(text, from, to) ==
    LET hits == {i \in 1..(Len(text) + 1) : MatchesAt(text, from, i)}
    IN IF hits = {} THEN text
       ELSE LET first == CHOOSE i \in hits : \A j \in hits : i <= j
            IN SubSeq(text, 1, first - 1) \o to
                   \o SubSeq(text, first + Len(from), Len(text))

\* str::replace(from, to)
Replace(text, from, to) == ReplaceFrom(text, from, to, 1)

\* str::rsplit_once('/').unwrap_or(("", "")).0
RSplitOnceHead(s) ==
    LET slashes == {i \in 1..Len(s) : s[i] = Slash}
    IN IF slashes = {} THEN <<>>
       ELSE LET last == CHOOSE i \in slashes : \A j \in slashes : j <= i
            IN SubSeq(s, 1, last - 1)

\* ------------------------------------------------------------------- inputs

\* Bytes an upstream body is made of: 'a' and 0xFF (never valid UTF-8).
BodyAlphabet == {97, 255}

RECURSIVE SeqsUpTo(_, _)
\* All sequences over S of length at most n.
SeqsUpTo(S, n) ==
    IF n = 0 THEN {<<>>}
    ELSE LET shorter == SeqsUpTo(S, n - 1)
         IN shorter \cup {Append(s, x) : s \in {t \in shorter : Len(t) = n - 1}, x \in S}

Bodies == SeqsUpTo(BodyAlphabet, MaxBodyLen)

\* GitHubAsset values the upstream may list: name, url, browser_download_url.
\* "a/l": the download base is "a".
ManifestAsset ==
    [name |-> ManifestName, url |-> "U1", browser_download_url |-> <<97, 47, 108>>]
\* "a/e"
AppAsset ==
    [name |-> "app.exe", url |-> "U2", browser_download_url |-> <<97, 47, 101>>]
\* "aa/l": the download base "aa" overlaps itself.
ManifestAssetAA ==
    [name |-> ManifestName, url |-> "U3", browser_download_url |-> <<97, 97, 47, 108>>]
\* "l": no '/' at all, the download base is empty.
ManifestAssetBare ==
    [name |-> ManifestName, url |-> "U4", browser_download_url |-> <<108>>]

\* The `assets` arrays a decoded latest-release response may hold.
Releases ==
    { <<>>,
      <<ManifestAsset, AppAsset>>,
      <<AppAsset>>,
      <<ManifestAssetAA, AppAsset>>,
      <<ManifestAssetBare, AppAsset>> }

\* A response body that does not decode as GitHubAssetsList (not JSON, or
\* JSON without an `assets` array such as GitHub's error object).
NotAssetList == <<[name |-> "", url |-> "", browser_download_url |-> <<>>]>>

\* Filenames a client may ask for.
Filenames == {ManifestName, "app.exe", "missing.zip"}

\* What the upstream answers to GET .../releases/latest.
ReleaseReplies ==
    {[kind |-> "transport", status |-> 0, body |-> NotAssetList]}
    \cup [kind : {"http"}, status : {200, 401}, body : Releases \cup {NotAssetList}]

\* What the upstream answers to an asset fetch.
AssetReplies ==
    {[kind |-> "transport", status |-> 0, body |-> <<>>]}
    \cup [kind : {"http"}, status : {200, 404}, body : Bodies]

\* `server_addr: Option<S>` of PrivUpdater::new, an Option being a sequence of
\* at most one element: None, or Some(port) on loopback.
RequestedAddrs == {<<>>, <<65535>>}

\* Ports the operating system may hand out for a bind to port 0.
EphemeralPorts == {49152, 49153}

\* -------------------------------------------------------------------- state

VARIABLES
    overflow_checks,  \* build profile: does u16 `+` panic on overflow?
    COUNTER,          \* static COUNTER: AtomicU8 of serve_with_retry
    updaters,         \* the PrivUpdater::new calls and the values they made
    binds,            \* what each serve_update call did
    listeners,        \* the spawned server tasks
    senders,          \* the oneshot::Sender each serve_update returned
    requests          \* requests inside the warp filter

vars == <<overflow_checks, COUNTER, updaters, binds, listeners, senders, requests>>

Updaters == 1..MaxUpdaters
RequestSlots == 1..MaxRequests

\* HashMap<String, String> with no entry.
EmptyCatalog == [n \in {} |-> ""]

\* No PrivUpdater value: new was not called ("absent"), or the value was
\* moved into serve_update ("moved").
NoUpdater(state) ==
    [state |-> state, sent |-> 0, status |-> 0, decoded |-> -1,
     server_addr |-> 0, assets |-> EmptyCatalog, download_url_base |-> <<>>,
     shutdown_signal |-> <<>>, shutdown_calls |-> 0, shutdown_result |-> "none"]

NoBind ==
    [result |-> "none", unavailable |-> 0, tried |-> <<>>, counter |-> 0, addr |-> 0]

NoSnapshot ==
    [assets |-> EmptyCatalog, download_url_base |-> <<>>, server_addr |-> <<>>]

NoListener == [status |-> "none", addr |-> 0, snapshot |-> NoSnapshot, rx |-> 0]

NoSender == [state |-> "none", chan |-> 0]

NoRequest ==
    [state |-> "idle", listener |-> 0, filename |-> "", url |-> "", fetches |-> 0,
     upstream |-> [kind |-> "none", status |-> 0, body |-> <<>>],
     response |-> [kind |-> "none", body |-> <<>>]]

Init ==
    /\ overflow_checks \in BOOLEAN
    /\ COUNTER = 0
    /\ updaters = [i \in Updaters |-> NoUpdater("absent")]
    /\ binds = [i \in Updaters |-> NoBind]
    /\ listeners = [i \in Updaters |-> NoListener]
    /\ senders = [i \in Updaters |-> NoSender]
    /\ requests = [r \in RequestSlots |-> NoRequest]

\* -------------------------------------------------------- PrivUpdater::new

\* HashMap::from_iter over (name, url): a later asset of the same name
\* replaces an earlier one.
Catalog(list) ==
    [n \in {list[k].name : k \in DOMAIN list} |->
        LET last == CHOOSE k \in DOMAIN list :
                        /\ list[k].name = n
                        /\ \A j \in DOMAIN list : list[j].name = n => j <= k
        IN list[last].url]

\* The outcome of PrivUpdater::new: "err" for every `?`, "panic" for the
\* index `assets[0]` of an empty Vec, "ok" otherwise.  The status of the
\* response is not looked at.
NewResult(headersOk, reply) ==
    IF ~headersOk THEN "err"
    ELSE IF reply.kind = "transport" THEN "err"
    ELSE IF reply.body = NotAssetList THEN "err"
    ELSE IF Len(reply.body) = 0 THEN "panic"
    ELSE "ok"

\* Requests new sends to the latest-release endpoint: one, once the headers
\* are built.
NewSent(headersOk) == IF headersOk THEN 1 ELSE 0

\* PrivUpdater::new for slot i.  The record keeps what the call saw (the
\* status, the number of assets decoded, -1 for none) beside the value made.
New(i, addr, headersOk, reply) ==
    /\ updaters[i].state = "absent"
    /\ \A j \in Updaters : j < i => updaters[j].state # "absent"
    /\ LET result == NewResult(headersOk, reply)
           seen == [NoUpdater(result) EXCEPT
                       !.sent = NewSent(headersOk),
                       !.status = IF headersOk THEN reply.status ELSE 0,
                       !.decoded = IF headersOk /\ reply.kind = "http"
                                        /\ reply.body # NotAssetList
                                   THEN Len(reply.body) ELSE -1]
       IN updaters' = [updaters EXCEPT ![i] =
              IF result = "ok"
              THEN [seen EXCEPT
                       !.server_addr = IF addr = <<>> THEN DefaultPort ELSE addr[1],
                       !.assets = Catalog(reply.body),
                       !.download_url_base =
                           RSplitOnceHead(reply.body[1].browser_download_url)]
              ELSE seen]
    /\ UNCHANGED <<overflow_checks, COUNTER, binds, listeners, senders, requests>>

\* ------------------------------------------------- PrivUpdater::serve_update

RECURSIVE ServeWithRetryResetting(_, _, _, _)
\* serve_with_retry with a counter that is set back to zero by a bind that
\* succeeds.
ServeWithRetryResetting(port, counter, unavailable, tried) ==
    LET attempt == Len(tried) + 1
        now == Append(tried, port)
    IN IF unavailable = 0
       THEN [result |-> "ok", port |-> port, counter |-> 0, tried |-> now,
             tx |-> attempt, rx |-> attempt]
       ELSE IF counter > RetryCeiling
       THEN [result |-> "err", port |-> port, counter |-> counter, tried |-> now,
             tx |-> 0, rx |-> 0]
       ELSE IF overflow_checks /\ port + 1 >= PortWidth
       THEN [result |-> "panic", port |-> port, counter |-> counter, tried |-> now,
             tx |-> 0, rx |-> 0]
       ELSE ServeWithRetryResetting(((port + 1) % PortWidth) % PortModulus,
                                    (counter + 1) % CounterWidth, unavailable - 1, now)

RECURSIVE ServeWithRetry(_, _, _, _)
\* serve_with_retry with self.server_addr at `port` and COUNTER at `counter`,
\* when the next `unavailable` bind attempts fail; `tried` lists the
\* candidates of the attempts made before this one.  Each call opens a new
\* oneshot channel, numbered by the attempt; `tx` is the one returned.
ServeWithRetry(port, counter, unavailable, tried) ==
    LET attempt == Len(tried) + 1
        now == Append(tried, port)
    IN IF unavailable = 0
       THEN [result |-> "ok", port |-> port, counter |-> counter, tried |-> now,
             tx |-> attempt, rx |-> attempt]
       ELSE IF counter > RetryCeiling
       THEN [result |-> "err", port |-> port, counter |-> counter, tried |-> now,
             tx |-> 0, rx |-> 0]
       ELSE IF overflow_checks /\ port + 1 >= PortWidth
       THEN [result |-> "panic", port |-> port, counter |-> counter, tried |-> now,
             tx |-> 0, rx |-> 0]
       ELSE ServeWithRetry(((port + 1) % PortWidth) % PortModulus,
                           (counter + 1) % CounterWidth, unavailable - 1, now)

\* The address try_bind_with_graceful_shutdown reports for a bind to `port`:
\* the operating system picks the port when asked for port 0.
BoundAddr(port, ephemeral) == IF port = 0 THEN ephemeral ELSE port

\* The values serve_update clones for the request filter before it binds.
Snapshot(u) ==
    [assets |-> u.assets,
     download_url_base |-> u.download_url_base,
     server_addr |-> HttpScheme \o SocketAddrToString(u.server_addr)]

\* Ports held by the listeners of this process that still accept.
HeldPorts ==
    {listeners[j].addr : j \in {k \in Updaters : listeners[k].status = "serving"}}

\* serve_update written with `&mut self`: the caller keeps the PrivUpdater.
AfterServeBorrowed(u) == u

\* serve_update takes `mut self` by value: the PrivUpdater is moved into the
\* call and is gone when the call returns, with Ok or with Err.
AfterServe(u) == NoUpdater("moved")

\* serve_update(self): the first `unavailable` candidates tried cannot be
\* bound, the next one can; the environment is asked about the candidates
\* that are tried and no others.  The PrivUpdater is consumed whatever the
\* outcome.
ServeUpdate(i, unavailable, ephemeral) ==
    /\ updaters[i].state = "ok"
    /\ \E bound \in {ServeWithRetry(updaters[i].server_addr, COUNTER, unavailable, <<>>)} :
       LET snapshot == Snapshot(updaters[i])
           addr == BoundAddr(bound.port, ephemeral)
       IN /\ bound.result # "ok" => unavailable = Len(bound.tried)
          /\ bound.port # 0 => ephemeral = CHOOSE e \in EphemeralPorts : TRUE
          /\ bound.result = "ok" => addr \notin HeldPorts
          /\ COUNTER' = bound.counter
          /\ binds' = [binds EXCEPT ![i] =
                 [result |-> bound.result, unavailable |-> unavailable,
                  tried |-> bound.tried, counter |-> COUNTER,
                  addr |-> IF bound.result = "ok" THEN addr ELSE 0]]
          /\ listeners' = [listeners EXCEPT ![i] =
                 IF bound.result = "ok"
                 THEN [status |-> "serving", addr |-> addr, snapshot |-> snapshot,
                       rx |-> bound.rx]
                 ELSE NoListener]
          /\ senders' = [senders EXCEPT ![i] =
                 IF bound.result = "ok"
                 THEN [state |-> "held", chan |-> bound.tx]
                 ELSE NoSender]
    /\ updaters' = [updaters EXCEPT ![i] = AfterServe(updaters[i])]
    /\ UNCHANGED <<overflow_checks, requests>>

\* ---------------------------------------------------- PrivUpdater::shutdown

\* shutdown written with `take().unwrap()`: it panics when no sender is stored.
ShutdownEffectUnwrap(signal) ==
    [signal |-> <<>>, fired |-> signal # <<>>,
     result |-> IF signal = <<>> THEN "panic" ELSE "returned"]

\* shutdown(&mut self) on a handle whose shutdown_signal is `signal`:
\* take() leaves None, and a sender that was there is fired.
ShutdownEffect(signal) ==
    [signal |-> <<>>, fired |-> signal # <<>>, result |-> "returned"]

Shutdown(i) ==
    /\ updaters[i].state = "ok"
    /\ updaters[i].shutdown_calls < MaxShutdownCalls
    /\ LET effect == ShutdownEffect(updaters[i].shutdown_signal)
       IN /\ updaters' = [updaters EXCEPT ![i].shutdown_signal = effect.signal,
                                          ![i].shutdown_calls = @ + 1,
                                          ![i].shutdown_result = effect.result]
          /\ senders' = [senders EXCEPT ![i].state =
                 IF effect.fired THEN "sent" ELSE @]
    /\ UNCHANGED <<overflow_checks, COUNTER, binds, listeners, requests>>

\* --------------------------------------------- the sender the host was given

\* tx.send(()) by the host.
SendShutdown(i) ==
    /\ senders[i].state = "held"
    /\ senders' = [senders EXCEPT ![i].state = "sent"]
    /\ UNCHANGED <<overflow_checks, COUNTER, updaters, binds, listeners, requests>>

\* The host drops tx without sending.
DropSender(i) ==
    /\ senders[i].state = "held"
    /\ senders' = [senders EXCEPT ![i].state = "dropped"]
    /\ UNCHANGED <<overflow_checks, COUNTER, updaters, binds, listeners, requests>>

\* ------------------------------------------------------- the spawned server

InFlight(i) ==
    {r \in RequestSlots : requests[r].state = "fetching" /\ requests[r].listener = i}

\* A shutdown future that resolves only when the sender is dropped.
SignalReceivedOnDropOnly(i) ==
    /\ senders[i].chan = listeners[i].rx
    /\ senders[i].state = "dropped"

\* A shutdown future that resolves only when the sender is fired.
SignalReceivedOnSendOnly(i) ==
    /\ senders[i].chan = listeners[i].rx
    /\ senders[i].state = "sent"

\* `rx.await.ok()` completes: the sender of the listener's channel was fired
\* or dropped.
SignalReceived(i) ==
    /\ senders[i].chan = listeners[i].rx
    /\ senders[i].state \in {"sent", "dropped"}

\* A shutdown that aborts the server task: the requests in flight are dropped
\* with it.
ObserveShutdownAbort(i) ==
    /\ listeners[i].status = "serving"
    /\ SignalReceived(i)
    /\ listeners' = [listeners EXCEPT ![i].status = "stopped"]
    /\ requests' = [r \in RequestSlots |->
                       IF r \in InFlight(i) THEN NoRequest ELSE requests[r]]
    /\ UNCHANGED <<overflow_checks, COUNTER, updaters, binds, senders>>

\* The graceful-shutdown future of the server resolves: the server stops
\* accepting and closes its socket; requests in flight are left to finish.
ObserveShutdown(i) ==
    /\ listeners[i].status = "serving"
    /\ SignalReceived(i)
    /\ listeners' = [listeners EXCEPT ![i].status =
                        IF InFlight(i) = {} THEN "stopped" ELSE "draining"]
    /\ UNCHANGED <<overflow_checks, COUNTER, updaters, binds, senders, requests>>

\* The last request in flight is answered: the server future completes.
Drained(i) ==
    /\ listeners[i].status = "draining"
    /\ InFlight(i) = {}
    /\ listeners' = [listeners EXCEPT ![i].status = "stopped"]
    /\ UNCHANGED <<overflow_checks, COUNTER, updaters, binds, senders, requests>>

\* ------------------------------------------------------ the request filter

\* A lookup that falls back to the manifest for a name it does not know.
LookupWithFallback(assets, filename) ==
    IF filename \in DOMAIN assets THEN <<assets[filename]>>
    ELSE IF ManifestName \in DOMAIN assets THEN <<assets[ManifestName]>>
    ELSE <<>>

\* assets.get(&filename): Some(url) or None.
Lookup(assets, filename) ==
    IF filename \in DOMAIN assets THEN <<assets[filename]>> ELSE <<>>

\* get_latest_json: the body as text, download_url_base replaced by
\* server_addr, as bytes; a reqwest::Error for a failed send or read.
GetLatestJson(reply, download_url_base, server_addr) ==
    IF reply.kind = "transport" THEN [kind |-> "upstream_error", body |-> <<>>]
    ELSE [kind |-> "ok",
          body |-> IntoBytes(Replace(Utf8DecodeLossy(reply.body),
                                     download_url_base, server_addr))]

\* get_file: the bytes of the body; a reqwest::Error for a failed send or read.
GetFile(reply) ==
    IF reply.kind = "transport" THEN [kind |-> "upstream_error", body |-> <<>>]
    ELSE [kind |-> "ok", body |-> reply.body]

\* The filter up to its first await: the lookup, and either the not_found
\* rejection or the GET of the asset's url.
RouteStart(snapshot, l, filename) ==
    LET url == Lookup(snapshot.assets, filename)
    IN IF url = <<>>
       THEN [NoRequest EXCEPT !.state = "done", !.listener = l,
                              !.filename = filename,
                              !.response = [kind |-> "not_found", body |-> <<>>]]
       ELSE [NoRequest EXCEPT !.state = "fetching", !.listener = l,
                              !.filename = filename, !.url = url[1],
                              !.fetches = 1]

\* A filter that rewrites every asset, not only the manifest.
RouteFinishRewriteAll(snapshot, filename, reply) ==
    GetLatestJson(reply, snapshot.download_url_base, snapshot.server_addr)

\* The filter after the upstream answered: the manifest is rewritten, any
\* other asset is passed through.
RouteFinish(snapshot, filename, reply) ==
    IF filename = ManifestName
    THEN GetLatestJson(reply, snapshot.download_url_base, snapshot.server_addr)
    ELSE GetFile(reply)

\* A handler whose upstream error takes the listener down with it.
UpstreamReplyFatal(r, reply) ==
    /\ requests[r].state = "fetching"
    /\ LET req == requests[r]
           response == RouteFinish(listeners[req.listener].snapshot,
                                   req.filename, reply)
       IN /\ requests' = [requests EXCEPT ![r] =
                 [req EXCEPT !.state = "done", !.upstream = reply,
                             !.response = response]]
          /\ listeners' = [listeners EXCEPT ![req.listener].status =
                 IF response.kind = "upstream_error" THEN "stopped" ELSE @]
    /\ UNCHANGED <<overflow_checks, COUNTER, updaters, binds, senders>>

\* The server accepts GET /<filename> and runs the filter to its first await.
Admit(r, l, filename) ==
    /\ listeners[l].status = "serving"
    /\ requests[r].state = "idle"
    /\ \A q \in RequestSlots : q < r => requests[q].state # "idle"
    /\ requests' = [requests EXCEPT ![r] =
                        RouteStart(listeners[l].snapshot, l, filename)]
    /\ UNCHANGED <<overflow_checks, COUNTER, updaters, binds, listeners, senders>>

\* The upstream answers the fetch of request r and the filter completes.
UpstreamReply(r, reply) ==
    /\ requests[r].state = "fetching"
    /\ LET req == requests[r]
       IN requests' = [requests EXCEPT ![r] =
              [req EXCEPT !.state = "done", !.upstream = reply,
                          !.response = RouteFinish(listeners[req.listener].snapshot,
                                                   req.filename, reply)]]
    /\ UNCHANGED <<overflow_checks, COUNTER, updaters, binds, listeners, senders>>

\* The response of request r has been written to its client.
Retire(r) ==
    /\ requests[r].state = "done"
    /\ requests' = [requests EXCEPT ![r] = NoRequest]
    /\ UNCHANGED <<overflow_checks, COUNTER, updaters, binds, listeners, senders>>

\* ----------------------------------------------------------- specifications

\* Construction and binding of every PrivUpdater of the process; the release
\* decoded is the empty one or the manifest with one binary.
BindReleaseReplies ==
    {reply \in ReleaseReplies :
        reply.body \in {NotAssetList, <<>>, <<ManifestAsset, AppAsset>>}}

Next ==
    \/ \E i \in Updaters, addr \in RequestedAddrs, headersOk \in BOOLEAN,
          reply \in BindReleaseReplies : New(i, addr, headersOk, reply)
    \/ \E i \in Updaters, unavailable \in 0..MaxUnavailable,
          ephemeral \in EphemeralPorts : ServeUpdate(i, unavailable, ephemeral)
    \/ \E i \in Updaters : Shutdown(i)

Spec == Init /\ [][Next]_vars

\* One PrivUpdater at the default address that serves requests one after the
\* other until it is shut down: the release is decoded from a success
\* response, and the bind succeeds at the first or the second candidate.
ProxyReleaseReplies == {reply \in ReleaseReplies : reply.status = 200}

ProxyNext ==
    \/ \E reply \in ProxyReleaseReplies : New(1, <<>>, TRUE, reply)
    \/ \E unavailable \in 0..1, ephemeral \in EphemeralPorts :
          ServeUpdate(1, unavailable, ephemeral)
    \/ Shutdown(1)
    \/ SendShutdown(1)
    \/ DropSender(1)
    \/ ObserveShutdown(1)
    \/ Drained(1)
    \/ \E filename \in Filenames : Admit(1, 1, filename)
    \/ \E reply \in AssetReplies : UpstreamReply(1, reply)
    \/ Retire(1)

ProxySpec == Init /\ [][ProxyNext]_vars

\* The spawned server task is polled once its shutdown future is woken.
FairProxySpec == ProxySpec /\ WF_vars(ObserveShutdown(1)) /\ WF_vars(Drained(1))

\* The same PrivUpdater serving MaxRequests requests at a time, each in its
\* own task: the release is the manifest with one binary, the bind succeeds
\* at the first candidate, and upstream bodies are at most one byte long.
ConcurrentRelease ==
    [kind |-> "http", status |-> 200, body |-> <<ManifestAsset, AppAsset>>]

ConcurrentReplies == {reply \in AssetReplies : Len(reply.body) <= 1}

ConcurrentNext ==
    \/ New(1, <<>>, TRUE, ConcurrentRelease)
    \/ \E ephemeral \in EphemeralPorts : ServeUpdate(1, 0, ephemeral)
    \/ SendShutdown(1)
    \/ DropSender(1)
    \/ ObserveShutdown(1)
    \/ Drained(1)
    \/ \E r \in RequestSlots, filename \in Filenames : Admit(r, 1, filename)
    \/ \E r \in RequestSlots, reply \in ConcurrentReplies : UpstreamReply(r, reply)
    \/ \E r \in RequestSlots : Retire(r)

ConcurrentSpec == Init /\ [][ConcurrentNext]_vars

\* Every spawned task is polled when it can make progress: the server task
\* once its shutdown future is woken, a request task once the upstream
\* answered (reqwest's connect and read end with a reply or a failure).
FairConcurrentSpec ==
    /\ ConcurrentSpec
    /\ WF_vars(ObserveShutdown(1))
    /\ WF_vars(Drained(1))
    /\ \A r \in RequestSlots :
          WF_vars(\E reply \in ConcurrentReplies : UpstreamReply(r, reply))

\* ---------------------------------------------------------------- properties

\* The snapshot request r is served from.
SnapshotOf(r) == listeners[requests[r].listener].snapshot

Busy == {r \in RequestSlots : requests[r].state # "idle"}
Done == {r \in RequestSlots : requests[r].state = "done"}

\* C1: a request for a filename that is not a key of the catalog is answered
\* not-found as soon as it is looked up, and no upstream fetch is made for it.
C1_MissIsNotFound ==
    \A r \in Busy :
        requests[r].filename \notin DOMAIN SnapshotOf(r).assets =>
            /\ requests[r].state = "done"
            /\ requests[r].response = [kind |-> "not_found", body |-> <<>>]
            /\ requests[r].fetches = 0
            /\ requests[r].url = ""
            /\ requests[r].upstream.kind = "none"

\* The manifest name was asked of a release that has no such asset.
C1_Witness ==
    \E r \in Done :
        /\ requests[r].filename = ManifestName
        /\ ManifestName \notin DOMAIN SnapshotOf(r).assets
        /\ SnapshotOf(r).assets # EmptyCatalog

\* The positions at which pat occurs in text.
Occurrences(text, pat) == {i \in 1..(Len(text) + 1) : MatchesAt(text, pat, i)}

\* The occurrences a left-to-right scan takes: an occurrence is taken unless
\* an earlier taken one overlaps it.
ScanMatches(text, pat) ==
    CHOOSE M \in SUBSET Occurrences(text, pat) :
        \A i \in Occurrences(text, pat) :
            (i \in M) <=> ~(\E m \in M : m < i /\ i < m + Len(pat))

RECURSIVE Assemble(_, _, _, _, _)
\* text from position i on, with `to` put at every position of M and the
\* characters the matches of M cover left out.
Assemble(text, pat, to, M, i) ==
    IF i > Len(text) + 1 THEN <<>>
    ELSE (IF i \in M THEN to ELSE <<>>)
         \o (IF i <= Len(text) /\ ~(\E m \in M : m <= i /\ i < m + Len(pat))
             THEN <<text[i]>> ELSE <<>>)
         \o Assemble(text, pat, to, M, i + 1)

\* text with the occurrences of pat replaced by `to`, everything else kept.
Rewritten(text, pat, to) == Assemble(text, pat, to, ScanMatches(text, pat), 1)

\* Bytes that are UTF-8 text as they stand (within BodyAlphabet: ASCII).
ValidUtf8(bytes) == \A i \in 1..Len(bytes) : bytes[i] < 128

ManifestServed ==
    {r \in Done : requests[r].filename = ManifestName
                    /\ requests[r].upstream.kind = "http"}

\* C2 as stated: the response to a manifest request is the upstream body
\* with the occurrences of download_url_base replaced by the local base URL
\* and nothing else altered, and equals the upstream body when
\* download_url_base does not occur in it.
C2_RewriteOfUpstreamBytes ==
    \A r \in ManifestServed :
        LET body == requests[r].upstream.body
            base == SnapshotOf(r).download_url_base
            local == SnapshotOf(r).server_addr
        IN /\ requests[r].response.kind = "ok"
           /\ requests[r].response.body = Rewritten(body, base, local)
           /\ Occurrences(body, base) = {} => requests[r].response.body = body

\* C2 amended: the response to a manifest request is the UTF-8 encoding of
\* the upstream body decoded as text (a byte that is not UTF-8 becomes
\* U+FFFD) with the occurrences of download_url_base a left-to-right scan
\* finds replaced by the local base URL and nothing else altered; it equals
\* the upstream body when that body is UTF-8 text in which
\* download_url_base does not occur.
C2_RewriteOfDecodedText ==
    \A r \in ManifestServed :
        LET body == requests[r].upstream.body
            text == Utf8DecodeLossy(body)
            base == SnapshotOf(r).download_url_base
            local == SnapshotOf(r).server_addr
        IN /\ requests[r].response.kind = "ok"
           /\ requests[r].response.body = IntoBytes(Rewritten(text, base, local))
           /\ (ValidUtf8(body) /\ Occurrences(text, base) = {})
                  => requests[r].response.body = body

\* A manifest was served whose body holds download_url_base twice.
C2_Witness ==
    \E r \in ManifestServed :
        /\ SnapshotOf(r).download_url_base # <<>>
        /\ Cardinality(ScanMatches(requests[r].upstream.body,
                                   SnapshotOf(r).download_url_base)) = 2
        /\ requests[r].response.body =
               SnapshotOf(r).server_addr \o SnapshotOf(r).server_addr

\* C3: the response to a request for a catalogued asset other than the
\* manifest is fetched from that asset's url and carries exactly the bytes
\* the upstream returned.
C3_BinaryPassthrough ==
    \A r \in Done :
        (/\ requests[r].filename \in DOMAIN SnapshotOf(r).assets
         /\ requests[r].filename # ManifestName
         /\ requests[r].upstream.kind = "http") =>
            /\ requests[r].url = SnapshotOf(r).assets[requests[r].filename]
            /\ requests[r].fetches = 1
            /\ requests[r].response =
                   [kind |-> "ok", body |-> requests[r].upstream.body]

\* A binary was served whose bytes hold download_url_base and a byte that
\* is not UTF-8.
C3_Witness ==
    \E r \in Done :
        /\ requests[r].filename = "app.exe"
        /\ requests[r].response.kind = "ok"
        /\ SnapshotOf(r).download_url_base # <<>>
        /\ Occurrences(requests[r].upstream.body, SnapshotOf(r).download_url_base) # {}
        /\ ~ValidUtf8(requests[r].upstream.body)

\* C4: the local base URL of a serving listener's snapshot is "http://"
\* followed by the address the listener is bound to.
C4_LocalUrlIsBoundAddr ==
    \A i \in Updaters :
        listeners[i].status = "serving" =>
            listeners[i].snapshot.server_addr
                = HttpScheme \o SocketAddrToString(listeners[i].addr)

\* C5: a bind whose first N <= 10 candidates are unavailable succeeds on
\* candidate N + 1 and reports that candidate as the address bound.
C5_BindSucceedsWithinCeiling ==
    \A i \in Updaters :
        (binds[i].result # "none" /\ binds[i].unavailable <= RetryCeiling) =>
            /\ binds[i].result = "ok"
            /\ Len(binds[i].tried) = binds[i].unavailable + 1
            /\ binds[i].addr = binds[i].tried[Len(binds[i].tried)]
            /\ listeners[i].status # "none"

\* C6: a bind whose first 11 or more candidates are unavailable fails with
\* the error after the 11th failed attempt; no listener is started.
C6_BindFailsBeyondCeiling ==
    \A i \in Updaters :
        (binds[i].result # "none" /\ binds[i].unavailable > RetryCeiling) =>
            /\ binds[i].result = "err"
            /\ Len(binds[i].tried) = RetryCeiling + 1
            /\ listeners[i] = NoListener
            /\ senders[i] = NoSender

\* C7: every call of shutdown returns normally and leaves no signal stored;
\* a call made when no signal is stored changes nothing else.
C7_ShutdownIdempotent ==
    [][\A i \in Updaters :
          updaters'[i].shutdown_calls = updaters[i].shutdown_calls + 1 =>
              /\ updaters'[i].shutdown_result = "returned"
              /\ updaters'[i].shutdown_signal = <<>>
              /\ updaters[i].shutdown_signal = <<>> =>
                    /\ updaters' = [updaters EXCEPT
                                       ![i].shutdown_calls = @ + 1,
                                       ![i].shutdown_result = "returned"]
                    /\ UNCHANGED <<overflow_checks, COUNTER, binds, listeners,
                                   senders, requests>>]_vars

\* shutdown was called twice in a row on a PrivUpdater that never served.
C7_Witness ==
    \E i \in Updaters :
        /\ updaters[i].state = "ok"
        /\ updaters[i].shutdown_calls = 2
        /\ binds[i].result = "none"

\* C8: once the sender of a serving listener is fired, the listener
\* eventually stops accepting and closes its socket, and its task completes
\* unless requests are still in flight; a sender fired or dropped stays so,
\* and a sender's channel is the channel of its own listener.
C8_FiredSenderStopsListener ==
    /\ \A i \in Updaters :
          (senders[i].state = "sent" /\ listeners[i].status = "serving")
              ~> (\/ listeners[i].status = "stopped"
                  \/ listeners[i].status = "draining" /\ InFlight(i) # {})
    /\ [](\A i \in Updaters :
            senders[i].state # "none" =>
                /\ listeners[i].status # "none"
                /\ senders[i].chan = listeners[i].rx)
    /\ [][\A i \in Updaters :
            senders[i].state \in {"sent", "dropped"} => senders'[i] = senders[i]]_vars

\* A listener bound at its second attempt stopped after its sender was fired.
C8_Witness ==
    \E i \in Updaters :
        /\ senders[i].state = "sent"
        /\ listeners[i].status = "stopped"
        /\ listeners[i].rx = 2

\* C9: new answers a release with zero assets with an error value.
C9_EmptyReleaseIsError ==
    \A i \in Updaters : updaters[i].decoded = 0 => updaters[i].state = "err"

\* C10: new answers a non-success status with an error value, whatever the
\* body, after a single request.
C10_NonSuccessIsError ==
    \A i \in Updaters :
        (updaters[i].sent > 0 /\ updaters[i].status = 401) =>
            /\ updaters[i].state = "err"
            /\ updaters[i].sent = 1

\* C11: a request for a catalogued filename whose upstream fetch fails, by a
\* transport failure or by a non-success status, is answered with the
\* upstream error, on the manifest path and on the binary path; not-found is
\* answered only for a filename that is not in the catalog.
C11_UpstreamFailureIsError ==
    \A r \in Done :
        /\ (/\ requests[r].filename \in DOMAIN SnapshotOf(r).assets
            /\ \/ requests[r].upstream.kind = "transport"
               \/ requests[r].upstream.kind = "http" /\ requests[r].upstream.status # 200)
               => requests[r].response.kind = "upstream_error"
        /\ requests[r].response.kind = "not_found"
               => requests[r].filename \notin DOMAIN SnapshotOf(r).assets

\* C12: from a successful serve_update until the signal is consumed, the
\* PrivUpdater handle exists and its shutdown_signal holds the sender of the
\* running listener's channel.
C12_HandleStoresSender ==
    \A i \in Updaters :
        (listeners[i].status = "serving" /\ senders[i].state = "held") =>
            /\ updaters[i].state = "ok"
            /\ updaters[i].shutdown_signal = <<listeners[i].rx>>

\* C14: no candidate the retry walk produces after a failed bind is port 0
\* or a privileged port (below 1024).
C14_RetryAvoidsPrivilegedPorts ==
    \A i \in Updaters :
        \A k \in 2..Len(binds[i].tried) : binds[i].tried[k] >= 1024

\* Bound&Serving, ShuttingDown and Stopped in the order they are passed;
\* 0 while no listener was started.
LifecycleRank(status) ==
    CASE status = "none" -> 0
      [] status = "serving" -> 1
      [] status = "draining" -> 2
      [] status = "stopped" -> 3

\* C13: the listener of an instance never moves back along Bound&Serving,
\* ShuttingDown, Stopped; a listener that starts serving is the first one of
\* its instance, and an instance that was served or shut away stays so.
C13_LifecycleOneWay ==
    [][\A i \in Updaters :
          /\ LifecycleRank(listeners'[i].status) >= LifecycleRank(listeners[i].status)
          /\ listeners'[i].status = "serving" /\ listeners[i].status # "serving"
                => /\ listeners[i] = NoListener
                   /\ binds[i] = NoBind
          /\ binds'[i] # binds[i] => binds[i] = NoBind
          /\ listeners[i].status # "none"
                => /\ listeners'[i].addr = listeners[i].addr
                   /\ listeners'[i].snapshot = listeners[i].snapshot
                   /\ listeners'[i].rx = listeners[i].rx
          /\ updaters[i].state = "moved" => updaters'[i].state = "moved"]_vars

\* The listener of a consumed instance stopped, and a request it had fetched
\* for is answered.
C13_Witness ==
    /\ listeners[1].status = "stopped"
    /\ updaters[1].state = "moved"
    /\ \E r \in Done : requests[r].listener = 1 /\ requests[r].upstream.kind # "none"

\* The requests that end in not-found or upstream-error in this step.
EndsInError(r) ==
    /\ requests[r].state # "done"
    /\ requests'[r].state = "done"
    /\ requests'[r].response.kind \in {"not_found", "upstream_error"}

\* What the filter answers to a request by itself: a function of the
\* filename, the snapshot of its listener and the upstream's answer to it.
OwnOutcome(r) ==
    IF requests[r].filename \notin DOMAIN SnapshotOf(r).assets
    THEN [kind |-> "not_found", body |-> <<>>]
    ELSE RouteFinish(SnapshotOf(r), requests[r].filename, requests[r].upstream)

\* C15: a step in which a request ends in not-found or upstream-error
\* changes that request only: the listener keeps its status and its
\* snapshot, and every other request is left as it was; whatever the
\* interleaving, the response of every answered request is the one its own
\* filename and upstream answer determine.
C15_RequestErrorsIsolated ==
    /\ [][\A r \in RequestSlots :
            EndsInError(r) =>
                /\ listeners' = listeners
                /\ \A q \in RequestSlots \ {r} : requests'[q] = requests[q]
                /\ UNCHANGED <<overflow_checks, COUNTER, updaters, binds, senders>>]_vars
    /\ [](\A r \in Done : requests[r].response = OwnOutcome(r))

\* One request ended in upstream-error; its listener still serves and has
\* answered another request, for the manifest, with success.
C15_Witness ==
    /\ listeners[1].status = "serving"
    /\ \E r \in Done, q \in Done :
          /\ r # q
          /\ requests[r].response.kind = "upstream_error"
          /\ requests[q].response.kind = "ok"
          /\ requests[q].filename = ManifestName

Advances(i) == IF binds[i].result = "none" THEN 0 ELSE Len(binds[i].tried) - 1

RECURSIVE TotalAdvances(_)
\* The port advances of the binds 1..n together.
TotalAdvances(n) == IF n = 0 THEN 0 ELSE Advances(n) + TotalAdvances(n - 1)

\* C17: over the binds of a process made one after the other, COUNTER never
\* decreases and never exceeds 11; it counts the port advances of all binds
\* together; and a bind that starts with COUNTER above 10 and fails at its
\* first candidate returns the error without trying another port.
C17_CounterProcessWide ==
    /\ [](/\ COUNTER \in 0..(RetryCeiling + 1)
          /\ TotalAdvances(MaxUpdaters) = COUNTER
          /\ \A i \in Updaters :
                (binds[i].counter > RetryCeiling /\ binds[i].unavailable > 0) =>
                    /\ binds[i].result = "err"
                    /\ Len(binds[i].tried) = 1
                    /\ listeners[i] = NoListener)
    /\ [][COUNTER' >= COUNTER]_vars

\* A first bind used up the 11 advances, and a later bind of another
\* PrivUpdater failed at its first candidate.
C17_Witness ==
    /\ COUNTER = RetryCeiling + 1
    /\ \E i \in Updaters, j \in Updaters :
          /\ Advances(i) = RetryCeiling + 1
          /\ binds[j].counter = RetryCeiling + 1
          /\ binds[j].result = "err"
          /\ Len(binds[j].tried) = 1

\* C18: a serving listener whose sender was fired or dropped eventually
\* stops accepting, in the same way for both; a listener stops accepting
\* only once its sender was fired or dropped; and the listener's state after
\* it observed the signal does not tell a dropped sender from a fired one.
C18_DropStopsLikeSend ==
    /\ \A i \in Updaters :
          (listeners[i].status = "serving" /\ senders[i].state \in {"sent", "dropped"})
              ~> listeners[i].status \in {"draining", "stopped"}
    /\ [][\A i \in Updaters :
            (listeners[i].status = "serving" /\ listeners'[i].status # "serving") =>
                /\ senders[i].state \in {"sent", "dropped"}
                /\ listeners'[i] = [listeners[i] EXCEPT !.status =
                       IF InFlight(i) = {} THEN "stopped" ELSE "draining"]
                /\ UNCHANGED <<senders, requests>>]_vars
    /\ [](\A i \in Updaters :
            (listeners[i].status = "serving" /\ senders[i].state = "held")
                => ~ENABLED ObserveShutdown(i))

\* A listener stopped after its sender was dropped without being fired.
C18_Witness ==
    \E i \in Updaters :
        /\ senders[i].state = "dropped"
        /\ listeners[i].status = "stopped"

\* C19: every next candidate is (p + 1) % 1000 of the candidate p before it,
\* computed without overflow: no bind ends in an arithmetic panic.
C19_NextPortNeverOverflows ==
    \A i \in Updaters :
        /\ binds[i].result # "panic"
        /\ \A k \in 1..(Len(binds[i].tried) - 1) :
              /\ binds[i].tried[k + 1] = (binds[i].tried[k] + 1) % PortModulus
              /\ binds[i].tried[k + 1] \in 0..(PortModulus - 1)

====
